---- MODULE Spec2Model ----
(***************************************************************************)
(* Model of the three graph-sparsifier builders of the repository:         *)
(*   Cut_Sparsifier.py     sample_partition, connected_zero_extension      *)
(*   Flow_Sparsifier.py    flow_sparsifier_min_cut                         *)
(*   Mimicking_Networks.py mimicking_network                               *)
(* One run of the model is one call of one builder (variable mode) on one  *)
(* input graph.  The graph-algorithm primitives of networkx (Dijkstra with *)
(* cutoff, connected components, minimum spanning tree, minimum cut) are   *)
(* modelled by the values they return.                                     *)
(***************************************************************************)
EXTENDS Integers, Sequences, FiniteSets, TLC

(* ------------------------------ bounds --------------------------------- *)
\* at most MaxEdges edges in the input graph
MaxEdges == 3
\* every edge attribute value (weight / capacity) is 1 or MaxVal
MaxVal == 2
\* at most MaxK terminals; the terminals are the vertices 1..k
MaxK == 2
\* num_samples of flow_sparsifier_min_cut is drawn from 1..MaxSamples
MaxSamples == 2

\* at most MaxFreeEdges edges in the graphs whose components may lack a
\* terminal
MaxFreeEdges == 1

\* the vertices an input graph can have; a graph has the vertices 1..n
Nodes == 1..4

NumNodes == Cardinality(Nodes)

(* ------------------------- program constants --------------------------- *)
\* None, the initial value of boundary_term (no vertex is numbered 0)
None == 0
\* 2 ** FloatMaxExp is the first scale Delta that `Delta / 2.0` cannot
\* convert to a float (OverflowError: int too large to convert to float)
FloatMaxExp == 1024
\* eps of _unique_perturbation is 1e-6 = 1 / EpsInv
EpsInv == 1000000

VARIABLES
  mode,       \* which builder runs: "ze", "fs" or "mn"
  nodes,      \* G.nodes
  edges,      \* G.edges: set of <<u, v>> with u < v
  val,        \* the number attached to every edge when the graph was built
  attrs,      \* which attributes the edges carry: "weight", "capacity", "both"
  terminals,  \* the terminal list / set K
  pc,         \* position of the builder: "run", "done", "error"
  i,          \* connected_zero_extension: scale index
  f,          \* connected_zero_extension: vertex -> terminal (None = 0)
  unmapped,   \* connected_zero_extension: vertices not yet mapped
  clusters,   \* connected_zero_extension: the last sample_partition result
  num_samples,\* flow_sparsifier_min_cut: S
  sample,     \* flow_sparsifier_min_cut: samples done so far
  assign,     \* flow_sparsifier_min_cut: the last nearest-terminal map
  T,          \* flow_sparsifier_min_cut: the edges of the last sampled tree
  repr_of,    \* mimicking_network: vertex -> component label
  H           \* the sparsifier under construction / returned

vars == <<mode, nodes, edges, val, attrs, terminals, pc, i, f, unmapped,
          clusters, num_samples, sample, assign, T, repr_of, H>>

graphVars == <<mode, nodes, edges, val, attrs, terminals>>

(* ------------------------------ helpers -------------------------------- *)
AllEdges == {e \in Nodes \X Nodes : e[1] < e[2]}

Min(S) == CHOOSE x \in S : \A y \in S : x <= y

Max(S) == CHOOSE x \in S : \A y \in S : x >= y

\* fn itself; comparing it makes the model checker tabulate the function
\* once instead of re-evaluating its body at every application
Tab(fn) == IF fn = <<>> THEN <<>> ELSE fn

RECURSIVE SumOver(_, _)
\* sum of g[x] over x in S
SumOver(S, g) ==
  IF S = {} THEN 0
  ELSE LET x == CHOOSE y \in S : TRUE IN g[x] + SumOver(S \ {x}, g)

\* tuple(sorted((u, v)))
Key(u, v) == IF u < v THEN <<u, v>> ELSE <<v, u>>

\* the neighbours of v in the graph (nodes, E)
NeighborsIn(v, E) == {u \in nodes : u # v /\ Key(u, v) \in E}

\* G.neighbors(v)
Neighbors(v) == NeighborsIn(v, edges)

\* the value connected_zero_extension reads through data.get(weight, 1.0),
\* and Dijkstra through weight=weight (a missing attribute counts 1)
Weight(e) == IF attrs \in {"weight", "both"} THEN val[e] ELSE 1

\* d["capacity"]; only read on graphs that carry the attribute
Capacity(e) == val[e]

RECURSIVE ReachIn(_, _, _)
\* the vertices of S connected to a vertex of `from` inside the subgraph
\* of (nodes, E) induced by S
ReachIn(from, S, E) ==
  LET next == from \cup {v \in S : \E u \in from : u \in NeighborsIn(v, E)}
  IN IF next = from THEN from ELSE ReachIn(next, S, E)

\* nx.connected_components of the subgraph of (nodes, E) induced by S
ComponentsIn(S, E) == {ReachIn({v}, S, E) : v \in S}

\* nx.connected_components(G.subgraph(S))
Components(S) == ComponentsIn(S, edges)

\* no shortest path is longer than MaxDist
MaxDist == NumNodes * MaxVal

\* the distance of an unreachable vertex
Inf == MaxDist + 1

RECURSIVE Relax(_, _)
Relax(d, n) ==
  IF n = 0 THEN d
  ELSE Relax(Tab([v \in nodes |->
                Min({d[v]} \cup {d[u] + Weight(Key(u, v)) : u \in Neighbors(v)})]),
             n - 1)

\* shortest-path distances from t by the `weight` attribute (Inf = unreachable)
Dist(t) == Relax([v \in nodes |-> IF v = t THEN 0 ELSE Inf], NumNodes - 1)

(* ---------------------- Cut_Sparsifier.py ------------------------------ *)

\* a ball that ignores both the cutoff and the connectivity of G: not what
\* Dijkstra returns
BallOfAll(t, r) == nodes

\* nx.single_source_dijkstra_path_length(G, t, cutoff=r, weight=weight):
\* the vertices within distance r of t
Ball(t, r) == LET dist == Dist(t) IN {v \in nodes : dist[v] <= r}

\* the values floor(radii[t]) can take at scale Delta = 2 ** i, where
\* radii[t] = Delta/2 + random.random() * Delta/2 lies in [Delta/2, Delta]
\* (edge lengths are integers, so a ball depends on the floor of its radius
\* only, and a radius of MaxDist or more reaches all that can be reached)
Radii(scale) ==
  IF scale > MaxDist THEN {MaxDist}
  ELSE LET Delta == 2 ^ scale
       IN IF Delta \div 2 >= MaxDist THEN {MaxDist}
          ELSE {Min({r, MaxDist}) : r \in (Delta \div 2)..Delta}

\* random.shuffle(order): every order of the terminals
Orders == {s \in [1..Cardinality(terminals) -> terminals] :
             \A a, b \in DOMAIN s : a # b => s[a] # s[b]}

RECURSIVE ClusterOf(_, _, _)
\* the loop `for t in order` of sample_partition: cluster_of after the
\* terminals order[1..n] have grown their balls (None = not in cluster_of);
\* ball[t] is what Dijkstra returns for t with cutoff radii[t]
ClusterOf(order, ball, n) ==
  IF n = 0 THEN [v \in nodes |-> None]
  ELSE LET before == ClusterOf(order, ball, n - 1)
           t == order[n]
       IN Tab([v \in nodes |->
                 IF before[v] = None /\ v \in ball[t] THEN t ELSE before[v]])

\* sample_partition(G, terminals, Delta): {terminal : set(vertices)}, for
\* the shuffled order and the balls of the drawn radii
SamplePartition(order, ball) ==
  LET cluster_of == ClusterOf(order, ball, Len(order))
  IN Tab([t \in terminals |-> {v \in nodes : cluster_of[v] = t} \cup {t}])

\* what sample_partition(G, terminals, 2 ** scale) can return: one
\* clustering for every shuffled order and every draw of the radii
Partitions(scale) ==
  LET balls == Tab([t \in terminals |-> Tab([r \in Radii(scale) |-> Ball(t, r)])])
  IN {SamplePartition(order, Tab([t \in terminals |-> balls[t][radii[t]]])) :
        order \in Orders, radii \in [terminals -> Radii(scale)]}

\* deleted = {v for v in C if v not in unmapped}
Deleted(C) == {v \in C : v \notin unmapped}

\* residual_nodes = C - deleted
Residual(C) == C \ Deleted(C)

\* the clusters the scale loop works on: has_mapped and has_unmapped
Mixed(C) == (\E v \in C : v \notin unmapped) /\ (\E v \in C : v \in unmapped)

\* any terminal at all as boundary_term, adjacent to the component or
\* not: not what the search of the loop does
BoundaryTermsAny(comp, deleted) == terminals

\* the values boundary_term can end with for one component: f[u] of a
\* deleted neighbour u of a vertex of comp (which one depends on the
\* iteration order of the set and of the adjacency), None if there is none
BoundaryTerms(comp, deleted) ==
  LET found == {f[u] : u \in {w \in deleted : \E v \in comp : w \in Neighbors(v)}}
                 \ {None}
  IN IF found = {} THEN {None} ELSE found

\* the vertices one scale iteration maps
NewlyMapped(cl) == UNION {Residual(cl[t]) : t \in {k \in terminals : Mixed(cl[k])}}

\* the assignments one scale iteration can make: every component of every
\* residual goes as a whole to one of its boundary terminals
Assignments(cl) ==
  {g \in [NewlyMapped(cl) -> terminals \cup {None}] :
     \A t \in {k \in terminals : Mixed(cl[k])} :
       \A comp \in Components(Residual(cl[t])) :
         \E b \in BoundaryTerms(comp, Deleted(cl[t])) : \A v \in comp : g[v] = b}

\* unmapped computed afresh from the graph, forgetting the earlier scales:
\* not what the loop does
RemainingReset(g) == (nodes \ terminals) \ DOMAIN g

\* unmapped.difference_update(comp) for every component given a terminal by g
Remaining(g) == unmapped \ DOMAIN g

\* one iteration of `while unmapped` (lines 59-98); a run is followed up to
\* the scale index FloatMaxExp
ZEScale ==
  /\ mode = "ze" /\ pc = "run" /\ unmapped # {}
  /\ i <= FloatMaxExp
  /\ IF i = FloatMaxExp /\ terminals # {}
     THEN \* radii: Delta / 2.0 raises OverflowError for the first terminal
          /\ pc' = "error"
          /\ UNCHANGED <<i, f, unmapped, clusters>>
     ELSE \E cl \in Partitions(i) :
            \E g \in Assignments(cl) :
              /\ clusters' = cl
              /\ f' = [v \in DOMAIN f \cup DOMAIN g |->
                         IF v \in DOMAIN g THEN g[v] ELSE f[v]]
              /\ unmapped' = Remaining(g)
              /\ i' = i + 1
              /\ pc' = "run"
  /\ UNCHANGED <<graphVars, num_samples, sample, assign, T, repr_of, H>>

\* the label pairs of all edges, without the test t1 == t2 / a == b: not
\* what the builders do
HPairsAll(lab) == {{lab[e[1]], lab[e[2]]} : e \in edges}

\* an edge of the sparsifier joins two different labels
HPairs(lab) ==
  {{lab[e[1]], lab[e[2]]} : e \in {d \in edges : lab[d[1]] # lab[d[2]]}}

\* the edges of G whose end points carry the labels of p
Between(lab, p) == {e \in edges : {lab[e[1]], lab[e[2]]} = p}

\* capacity[key] += cap over G.edges, skipping t1 is None, t2 is None, t1 == t2
ZECapacity ==
  LET keys == {p \in HPairs(f) : None \notin p}
  IN [p \in keys |-> SumOver(Between(f, p), [e \in edges |-> Weight(e)])]

\* the code after the loop (lines 103-123): H on the terminals
ZEBuild ==
  /\ mode = "ze" /\ pc = "run" /\ unmapped = {}
  /\ H' = [nodes |-> terminals,
           capacity |-> ZECapacity,
           weight |-> [p \in DOMAIN ZECapacity |->
                         Dist(Min(p))[Max(p)]]]
  /\ pc' = "done"
  /\ UNCHANGED <<graphVars, i, f, unmapped, clusters,
                 num_samples, sample, assign, T, repr_of>>

(* ---------------------- Flow_Sparsifier.py ----------------------------- *)

\* the vertices of the graph T that random_spanning_tree builds with
\* T.add_edge from G.edges: the vertices that have an edge
TreeNodes == {v \in nodes : Neighbors(v) # {}}

\* F joins what G.edges joins (the components comps) and has no cycle
IsSpanningForest(F, comps) ==
  /\ Cardinality(F) = Cardinality(nodes) - Cardinality(comps)
  /\ ComponentsIn(nodes, F) = comps

\* what random_spanning_tree(G) can return: nx.minimum_spanning_tree by
\* length = (1 / capacity) * (1 + noise), noise in [0, jitter]. The noise is
\* too small to reorder two different capacities and orders equal ones in
\* every way, so every spanning forest of largest capacity can come out
SpanningTrees ==
  LET cap == Tab([e \in edges |-> Capacity(e)])
      comps == ComponentsIn(nodes, edges)
      forests == {F \in SUBSET edges : IsSpanningForest(F, comps)}
      total == Tab([F \in forests |-> SumOver(F, cap)])
      best == Max({total[F] : F \in forests})
  IN {F \in forests : total[F] = best}

\* 1.0 / T[u][v]["capacity"], counted in 1 / MaxVal
TreeLength(e) == MaxVal \div Capacity(e)

\* (a, b) < (c, d) for the heap entries (dist, node, origin_terminal)
HeapLess(x, y) ==
  \/ x[1] < y[1]
  \/ x[1] = y[1] /\ x[2] < y[2]
  \/ x[1] = y[1] /\ x[2] = y[2] /\ x[3] < y[3]

RECURSIVE HeapLoop(_, _, _, _)
\* the loop `while pq` of nearest_terminal_map on the tree with edges tree:
\* dist and asg are the dictionaries, pq the heap (asg[v] = None: no entry)
HeapLoop(tree, dist, asg, pq) ==
  IF pq = {} THEN asg
  ELSE LET top == CHOOSE x \in pq : \A y \in pq : x = y \/ HeapLess(x, y)
           d == top[1]
           u == top[2]
           src == top[3]
           rest == pq \ {top}
       IN IF d # dist[u] THEN HeapLoop(tree, dist, asg, rest)
          ELSE LET better == {v \in NeighborsIn(u, tree) :
                                d + TreeLength(Key(u, v)) < dist[v]}
               IN HeapLoop(tree,
                           Tab([v \in nodes |->
                                  IF v \in better THEN d + TreeLength(Key(u, v))
                                  ELSE dist[v]]),
                           Tab([v \in nodes |-> IF v = u THEN src ELSE asg[v]]),
                           rest \cup {<<d + TreeLength(Key(u, v)), v, src>> : v \in better})

\* nearest_terminal_map(T) when every terminal is a vertex of T
NearestTerminalMap(tree) ==
  HeapLoop(tree,
           [v \in nodes |-> IF v \in terminals THEN 0 ELSE Inf],
           [v \in nodes |-> IF v \in terminals THEN v ELSE None],
           {<<0, t, t>> : t \in terminals})

\* T.neighbors(u) raises NetworkXError for a terminal that is no vertex of
\* T; assign[u] raises KeyError for an end point no terminal reaches
SampleFails(asg) ==
  \/ \E t \in terminals : t \notin TreeNodes
  \/ \E e \in edges : asg[e[1]] = None \/ asg[e[2]] = None

RECURSIVE Factorial(_)
Factorial(n) == IF n <= 1 THEN 1 ELSE n * Factorial(n - 1)

\* the weights of H are counted in 1 / WeightUnit, which every num_samples
\* divides
WeightUnit == Factorial(MaxSamples)

\* w = d["capacity"] / num_samples, of one edge of capacity c
SampleWeight(c) == c * (WeightUnit \div num_samples)

\* one sample added without the averaging factor (w = d["capacity"]): not
\* what the builder does
AddSampleWhole(G0, asg) ==
  LET cap == Tab([e \in edges |-> Capacity(e) * WeightUnit])
      pairs == DOMAIN G0.weight \cup HPairs(asg)
  IN [G0 EXCEPT !.weight =
        [p \in pairs |->
           (IF p \in DOMAIN G0.weight THEN G0.weight[p] ELSE 0)
           + SumOver(Between(asg, p), cap)]]

\* H after `for u, v, d in G.edges(data=True)` has added one sample
AddSample(G0, asg) ==
  LET w == Tab([e \in edges |-> SampleWeight(Capacity(e))])
      pairs == DOMAIN G0.weight \cup HPairs(asg)
  IN [G0 EXCEPT !.weight =
        [p \in pairs |->
           (IF p \in DOMAIN G0.weight THEN G0.weight[p] ELSE 0)
           + SumOver(Between(asg, p), w)]]

\* what one pass of `for _ in range(num_samples)` can draw: a tree and its map
Samples == {<<tree, NearestTerminalMap(tree)>> : tree \in SpanningTrees}

\* one pass of `for _ in range(num_samples)` (lines 74-87)
FSSample ==
  /\ mode = "fs" /\ pc = "run" /\ sample < num_samples
  /\ \E s \in Samples :
       /\ T' = s[1]
       /\ assign' = s[2]
       /\ IF SampleFails(s[2])
          THEN pc' = "error" /\ UNCHANGED <<sample, H>>
          ELSE pc' = "run" /\ sample' = sample + 1 /\ H' = AddSample(H, s[2])
  /\ UNCHANGED <<graphVars, i, f, unmapped, clusters, num_samples, repr_of>>

\* return H (line 89)
FSReturn ==
  /\ mode = "fs" /\ pc = "run" /\ sample = num_samples
  /\ pc' = "done"
  /\ UNCHANGED <<graphVars, i, f, unmapped, clusters, num_samples, sample,
                 assign, T, repr_of, H>>

(* -------------------- Mimicking_Networks.py ---------------------------- *)

\* the index enumerate(G.edges(data=True)) gives an edge: the edges come
\* vertex by vertex, in the order the graph was built (1, 2, ...)
EdgeIndex(e) ==
  Cardinality({d \in edges : d[1] < e[1] \/ (d[1] = e[1] /\ d[2] < e[2])})

\* how many delta = eps / m make 1.0
Unit == Cardinality(edges) * EpsInv

\* d[capacity] after _unique_perturbation, counted in delta = eps / m:
\* capacity + (idx + 1) * delta
Perturbed(e) == Capacity(e) * Unit + (EdgeIndex(e) + 1)

\* the edges of G between A and the rest
Crossing(A) == {e \in edges : (e[1] \in A) # (e[2] \in A)}

\* the capacity (by cap) of the cut (A, nodes - A)
CutValue(A, cap) == SumOver(Crossing(A), cap)

\* the least capacity of a cut with S on one side and Tset on the other
MinCutValue(S, Tset, cap) ==
  Min({CutValue(A, cap) : A \in {X \in SUBSET nodes : S \subseteq X /\ X \cap Tset = {}}})

\* _min_cut_sets(G, S, T): the partition (A, B) nx.minimum_cut returns on
\* the supersource / supersink graph. The BIG edges are never cut, so S is
\* in A and T in B; B is the set of vertices that still reach the sink in the
\* residual network, which makes A the largest source side of a minimum cut
MinCutSets(S, Tset) ==
  LET cap == Tab([e \in edges |-> Perturbed(e)])
      sides == {X \in SUBSET nodes : S \subseteq X /\ X \cap Tset = {}}
      value == Tab([X \in sides |-> CutValue(X, cap)])
      best == Min({value[X] : X \in sides})
      A == UNION {X \in sides : value[X] = best}
  IN <<A, nodes \ A>>

\* the loop over all non-trivial bipartitions (lines 72-82): the union of
\* the edges crossing the minimum cuts
CutEdges ==
  UNION {Crossing(MinCutSets(S, terminals \ S)[1]) :
           S \in {X \in SUBSET terminals : X # {} /\ X # terminals}}

\* components = list(nx.connected_components(G_minus)), G_minus being G
\* without the edges that are not in the union
MNComponents == ComponentsIn(nodes, CutEdges)

\* the label f"c{idx}" of the idx-th component, numbered after the vertices
Synthetic(idx) == NumNodes + 1 + idx

\* the label of a component: next(iter(comp & terminals), f"c{idx}"), where
\* pick[comp] is the terminal the iteration of comp & terminals gives first
LabelOf(comp, comps, pick) ==
  IF comp \cap terminals # {} THEN pick[comp]
  ELSE Synthetic(Cardinality({c \in comps : Min(c) < Min(comp)}))

\* the maps repr_of the builder can end with
ReprChoices ==
  LET comps == MNComponents
      withTerm == {c \in comps : c \cap terminals # {}}
      picks == {pk \in [withTerm -> terminals] : \A c \in withTerm : pk[c] \in c}
  IN {Tab([n \in nodes |-> LabelOf(CHOOSE c \in comps : n \in c, comps, pick)]) :
        pick \in picks}

\* the rebuilt sparsifier (lines 100-109): d[capacity] summed over the
\* edges of G between two different labels
MNGraph(rep) ==
  [nodes |-> {rep[n] : n \in nodes},
   capacity |-> LET cap == Tab([e \in edges |-> Perturbed(e)])
                IN [p \in HPairs(rep) |-> SumOver(Between(rep, p), cap)],
   weight |-> <<>>]

\* mimicking_network(G_in, terminals)
MimickingNetwork ==
  /\ mode = "mn" /\ pc = "run"
  /\ IF edges = {}
     THEN \* delta = eps / m raises ZeroDivisionError
          /\ pc' = "error"
          /\ UNCHANGED <<repr_of, H>>
     ELSE \E rep \in ReprChoices :
            /\ repr_of' = rep
            /\ H' = MNGraph(rep)
            /\ pc' = "done"
  /\ UNCHANGED <<graphVars, i, f, unmapped, clusters, num_samples, sample, assign, T>>

(* ------------------------------ inputs --------------------------------- *)
\* every connected component of G contains a terminal
Covered ==
  \A S \in SUBSET (nodes \ terminals) :
    S = {} \/ \E e \in edges : (e[1] \in S) # (e[2] \in S)

EmptyH == [nodes |-> {}, capacity |-> <<>>, weight |-> <<>>]

InitGraph ==
  /\ nodes \in {1..n : n \in Nodes}
  /\ edges \in {E \in SUBSET (AllEdges \cap (nodes \X nodes)) :
                  Cardinality(E) <= MaxEdges}
  /\ val \in [edges -> {1, MaxVal}]
  /\ terminals \in {1..k : k \in 0..MaxK}
  /\ terminals \subseteq nodes
  /\ attrs \in {"weight", "capacity", "both"}

InitZE ==
  /\ mode = "ze"
  /\ pc = "run"
  /\ i = 0
  /\ f = [t \in terminals |-> t]
  /\ unmapped = nodes \ terminals
  /\ clusters = <<>>
  /\ num_samples = 0 /\ sample = 0 /\ assign = <<>> /\ T = {}
  /\ repr_of = <<>>
  /\ H = EmptyH

InitMN ==
  /\ mode = "mn"
  /\ attrs \in {"capacity", "both"}
  /\ pc = "run"
  /\ i = 0 /\ f = <<>> /\ unmapped = {} /\ clusters = <<>>
  /\ num_samples = 0 /\ sample = 0 /\ assign = <<>> /\ T = {}
  /\ repr_of = <<>>
  /\ H = EmptyH

InitFS ==
  /\ mode = "fs"
  /\ attrs \in {"capacity", "both"}
  /\ pc = "run"
  /\ i = 0 /\ f = <<>> /\ unmapped = {} /\ clusters = <<>>
  /\ num_samples \in 1..MaxSamples
  /\ sample = 0 /\ assign = <<>> /\ T = {}
  /\ repr_of = <<>>
  /\ H = [nodes |-> terminals, capacity |-> <<>>, weight |-> <<>>]

Init ==
  /\ InitGraph
  /\ \/ InitZE /\ Covered
     \/ InitFS
     \/ InitMN

Next == ZEScale \/ ZEBuild \/ FSSample \/ FSReturn \/ MimickingNetwork

Spec == Init /\ [][Next]_vars

\* a step of a running builder: every step of Next ends the builder or
\* moves a loop to its next iteration
Progress ==
  /\ pc = "run"
  /\ \E p \in {"run", "done", "error"}, di, ds \in {0, 1} :
       pc' = p /\ i' = i + di /\ sample' = sample + ds

\* the builders run on: none stops in the middle of its loop
FairSpec == Spec /\ WF_<<pc, i, sample>>(Progress)

\* connected_zero_extension on any graph with the length attribute and at
\* most MaxFreeEdges edges, covered by the terminals or not
InitFree ==
  /\ InitGraph
  /\ InitZE
  /\ attrs = "weight"
  /\ Cardinality(edges) <= MaxFreeEdges

NextFree == ZEScale \/ ZEBuild

SpecFree == InitFree /\ [][NextFree]_vars

(* ------------------------------ claims --------------------------------- *)
\* G is connected
Connected == Cardinality(ComponentsIn(nodes, edges)) = 1

\* v lies in a connected component of G that contains no terminal
TerminalFree(v) == ReachIn({v}, nodes, edges) \cap terminals = {}

Abs(x) == IF x < 0 THEN -x ELSE x

\* the edges of H, whichever attribute they carry
HEdges == DOMAIN H.capacity \cup DOMAIN H.weight

\* the capacity of the cut (A, H.nodes - A) of H
HCutValue(A) ==
  SumOver({p \in DOMAIN H.capacity : Cardinality(p \cap A) = 1}, H.capacity)

\* the least capacity of a cut of H with SI on one side and TI on the other
HMinCut(SI, TI) ==
  Min({HCutValue(A) : A \in {X \in SUBSET H.nodes : SI \subseteq X /\ X \cap TI = {}}})

\* the least capacity of a cut of G between S and Tset by the capacities
\* of the input graph, counted in delta like the capacities of H
GMinCut(S, Tset) == MinCutValue(S, Tset, [e \in edges |-> Capacity(e) * Unit])

\* all that _unique_perturbation adds to the edges together, in delta
PerturbationSum == SumOver(edges, [e \in edges |-> EdgeIndex(e) + 1])

\* C1: when connected_zero_extension returns on a graph whose components
\* all contain a terminal, f is defined on every vertex, f(v) is a terminal
\* (never None) for every vertex v, and f(t) = t for every terminal t
C1_Coverage ==
  mode = "ze" /\ pc = "done" =>
    /\ DOMAIN f = nodes
    /\ \A v \in nodes : f[v] \in terminals
    /\ \A t \in terminals : f[t] = t

\* C2: for a connected graph and at least two terminals, every bipartition
\* (S, K - S) of the terminals has the same minimum cut value between the
\* images of its sides in the returned H as between its sides in G, up to
\* the perturbation
C2_Exactness ==
  mode = "mn" /\ pc = "done" /\ Connected /\ Cardinality(terminals) >= 2 =>
    \A S \in SUBSET terminals :
      S # {} /\ S # terminals =>
        LET SI == {repr_of[t] : t \in S}
            TI == {repr_of[t] : t \in terminals \ S}
        IN /\ SI \cap TI = {}
           /\ Abs(HMinCut(SI, TI) - GMinCut(S, terminals \ S)) <= PerturbationSum

\* C3: for a connected graph and exactly two terminals s and t, the returned
\* H has exactly two nodes and one edge, whose capacity is the minimum s-t
\* cut value of G
C3_SinglePair ==
  mode = "mn" /\ pc = "done" /\ Connected /\ Cardinality(terminals) = 2 =>
    /\ Cardinality(H.nodes) = 2
    /\ Cardinality(DOMAIN H.capacity) = 1
    /\ \A p \in DOMAIN H.capacity :
         \A s \in terminals :
           Abs(H.capacity[p] - GMinCut({s}, terminals \ {s})) <= PerturbationSum

\* C4: with at least two terminals, the clusters sample_partition returns
\* are pairwise disjoint: no vertex is in the clusters of two terminals
C4_Disjoint ==
  mode = "ze" /\ Cardinality(terminals) >= 2 /\ clusters # <<>> =>
    \A a, b \in terminals : a # b => clusters[a] \cap clusters[b] = {}

\* C5: the unmapped set never grows from one scale iteration to the next,
\* and on a graph whose components all contain a terminal it becomes empty
\* after finitely many iterations, whatever the samples, and the builder
\* returns
C5_ShrinkAndTerminate ==
  /\ [][unmapped' \subseteq unmapped]_vars
  /\ (mode = "ze" /\ pc = "run") ~> (unmapped = {} /\ pc = "done")

\* the scale loop ran more than two iterations and the builder returned
C5_Witness ==
  mode = "ze" /\ pc = "done" /\ i > 2 /\ unmapped = {} /\ nodes # terminals

C7_Degenerate ==
  mode = "mn" /\ Cardinality(terminals) <= 1 /\ edges # {} /\ pc # "run" =>
    /\ pc = "done"
    /\ Cardinality(H.nodes) = 1
    /\ DOMAIN H.capacity = {}

\* C8: on a graph without edges the perturbation raises no error, and the
\* builder returns the isolated terminals without edges
C8_EmptyEdges ==
  mode = "mn" /\ edges = {} =>
    /\ pc # "error"
    /\ pc = "done" => H.nodes = terminals /\ DOMAIN H.capacity = {}

\* C9: on a connected graph with a non-empty terminal list, the H that
\* connected_zero_extension and flow_sparsifier_min_cut return has the
\* terminals as its nodes, no edge from a terminal to itself, and no
\* negative capacity or weight
C9_Validity ==
  mode \in {"ze", "fs"} /\ pc = "done" /\ Connected /\ terminals # {} =>
    /\ H.nodes = terminals
    /\ \A p \in HEdges : Cardinality(p) = 2 /\ p \subseteq H.nodes
    /\ \A p \in DOMAIN H.capacity : H.capacity[p] >= 0
    /\ \A p \in DOMAIN H.weight : H.weight[p] >= 0

\* a builder has returned an H with an edge, on a connected graph in which
\* some edge stays inside one terminal's part
C9_Witness ==
  /\ mode \in {"ze", "fs"} /\ pc = "done" /\ Connected
  /\ HEdges # {}
  /\ Cardinality(edges) > Cardinality(HEdges)

\* C10: in the H connected_zero_extension returns, two different terminals
\* a and b are joined exactly when some edge (u, v) of G has
\* {f(u), f(v)} = {a, b}, and the capacity of that edge of H is the sum of
\* the capacity values of those edges of G
C10_Aggregation ==
  mode = "ze" /\ pc = "done" /\ attrs \in {"capacity", "both"} =>
    \A a, b \in terminals :
      a # b =>
        /\ {a, b} \in DOMAIN H.capacity <=> Between(f, {a, b}) # {}
        /\ {a, b} \in DOMAIN H.capacity =>
             H.capacity[{a, b}] =
               SumOver(Between(f, {a, b}), [e \in edges |-> Capacity(e)])

\* C11: for every two different component labels a and b of the H that
\* mimicking_network returns, the capacity of the edge (a, b) of H is the
\* sum of the capacities the input graph G_in gives (without the offsets of
\* the perturbation) to the edges of G whose end points map to a and b
C11_Unperturbed ==
  mode = "mn" /\ pc = "done" =>
    \A a, b \in H.nodes :
      a # b =>
        /\ {a, b} \in DOMAIN H.capacity <=> Between(repr_of, {a, b}) # {}
        /\ {a, b} \in DOMAIN H.capacity =>
             H.capacity[{a, b}] =
               SumOver(Between(repr_of, {a, b}),
                       [e \in edges |-> Capacity(e) * Unit])

RECURSIVE TreeRelax(_, _, _)
TreeRelax(tree, d, n) ==
  IF n = 0 THEN d
  ELSE TreeRelax(tree,
                 Tab([v \in nodes |->
                        Min({d[v]} \cup {d[u] + TreeLength(Key(u, v)) :
                                           u \in NeighborsIn(v, tree)})]),
                 n - 1)

\* the distance from t along the tree, each edge 1 / capacity long, counted
\* in 1 / MaxVal (Inf: no path)
TreeDist(tree, t) ==
  TreeRelax(tree, [v \in nodes |-> IF v = t THEN 0 ELSE Inf], NumNodes - 1)

\* the weight of the edge p of G0, 0 for an edge that is absent
WeightOf(G0, p) == IF p \in DOMAIN G0.weight THEN G0.weight[p] ELSE 0

\* the capacity of the edges of G whose end points asg sends to a and b
Contribution(asg, a, b) ==
  SumOver(Between(asg, {a, b}), [e \in edges |-> Capacity(e)])

\* C12: flow_sparsifier_min_cut starts from an H without edges and makes
\* num_samples = S passes before it returns; every pass adds to the weight
\* of every pair of different terminals a, b 1/S times the capacity of the
\* edges of G whose end points the pass's nearest-terminal map sends to a
\* and b, the edge (a, b) existing exactly once a pass has contributed; the
\* map of every pass sends each terminal to itself and each vertex of the
\* tree to a terminal at the least tree distance
C12_Averaging ==
  /\ mode = "fs" => sample = 0 /\ DOMAIN H.weight = {}
  /\ [][mode = "fs" =>
          /\ pc' = "done" => sample = num_samples /\ H' = H
          /\ pc' = "run" =>
               /\ sample' = sample + 1 /\ sample' <= num_samples
               /\ \A a, b \in terminals :
                    a # b =>
                      /\ num_samples * WeightOf(H', {a, b}) =
                           num_samples * WeightOf(H, {a, b})
                           + WeightUnit * Contribution(assign', a, b)
                      /\ {a, b} \in DOMAIN H'.weight <=>
                           \/ {a, b} \in DOMAIN H.weight
                           \/ Between(assign', {a, b}) # {}
               /\ DOMAIN H'.weight \subseteq {{a, b} : a, b \in terminals}
               /\ \A t \in terminals : assign'[t] = t
               /\ \A v \in TreeNodes :
                    /\ assign'[v] \in terminals
                    /\ \A t \in terminals :
                         TreeDist(T', assign'[v])[v] <= TreeDist(T', t)[v]
                    /\ TreeDist(T', assign'[v])[v] < Inf]_vars

\* the builder has returned after two passes or more, with an edge in H and
\* a vertex that is no terminal sent to a terminal
C12_Witness ==
  /\ mode = "fs" /\ pc = "done" /\ num_samples >= 2 /\ sample = num_samples
  /\ DOMAIN H.weight # {}
  /\ \E v \in nodes \ terminals : assign[v] \in terminals

\* the vertices f sends to t
Preimage(t) == {v \in DOMAIN f : f[v] = t}

\* C13: at every point of the scale loop of connected_zero_extension and in
\* the returned f, the vertices v with f(v) = t form, for every terminal t,
\* a connected subgraph of G that contains t
C13_ConnectedParts ==
  mode = "ze" =>
    \A t \in terminals :
      /\ t \in Preimage(t)
      /\ ReachIn({t}, Preimage(t), edges) = Preimage(t)

\* the builder has returned after several scales with a terminal whose part
\* holds two vertices besides the terminal, while another terminal exists
C13_Witness ==
  /\ mode = "ze" /\ pc = "done" /\ i >= 2
  /\ Cardinality(terminals) >= 2
  /\ \E t \in terminals : Cardinality(Preimage(t)) >= 3

====
